---- MODULE Spec2Model ----
(***************************************************************************)
(* Model of card_fraud.py: the card / POS / transaction graph kept in the  *)
(* graph store, the generate-data request (drop, init_data,                *)
(* compromise_pos_devices, pump_transactions) and the resolve-pos request. *)
(* Every memgraph.execute(...) call is one atomic step of the store.       *)
(***************************************************************************)
EXTENDS Integers, Sequences, FiniteSets, TLC

\* ---- bounds of the model ------------------------------------------------
MaxCards == 2
MaxTx == 3
\* resolve-pos requests served between two generate-data runs
MaxResolves == 1

\* request handler threads of the web server; sequential runs use one
Threads == {1, 2}
Sequential == {1}

\* report probabilities offered to generate-data, in units of 10^-7
ReportValues == {0, 5000000, 10000000}
\* values rand() can return, in units of 10^-6: rand() lies in [0, 1)
RandDraws == {0, 999999}

\* the values offered in the JSON body of a generate-data request; a field is
\* drawn when the handler first reads it
CardCounts == 0..MaxCards
\* the POS populations offered: none, one device, two devices
PosCounts == {0, 1, 2}
FraudCounts == PosCounts \cup {n + 1 : n \in PosCounts}
TxCounts == 0..MaxTx
\* the POS ids offered to resolve-pos: the ids of the largest POS population
PosIds == {n - 1 : n \in PosCounts \ {0}}

VARIABLES
    cardNodes,   \* (:Card {id, compromised}) nodes, in creation order
    posNodes,    \* (:Pos {id, compromised}) nodes, in creation order
    txNodes,     \* (:Transaction {id, fraudReported}) nodes, in creation order
    Using,       \* [:Using] edges <<transaction node, card node>>
    At,          \* [:At] edges <<transaction node, pos node>>
    req,         \* per thread: position in its handler and the handler's locals
    response,    \* per thread: status of the last Response it returned
    txHist,      \* history: per transaction node, the flags read at creation
    run,         \* history: the latest accepted generate-data request
    lastStmt,    \* history: the step taken last
    result       \* the rows returned by the last step, when it was a query

vars == <<cardNodes, posNodes, txNodes, Using, At, req, response, txHist, run, lastStmt,
          result>>
graph == <<cardNodes, posNodes, txNodes, Using, At>>

\* ---- helpers --------------------------------------------------------------

\* "%f" % report_pct: six decimals, here 10^-7 units rounded to 10^-6 units
FormatF(report_pct) == (report_pct + 5) \div 10

\* rand() < %f
Bernoulli_Inclusive(r, q) == r <= q
Bernoulli(r, q) == r < q

\* MATCH (c:Card {id: card_id})
MatchCard(cards, card_id) == {c \in DOMAIN cards : cards[c].id = card_id}
\* MATCH (p:Pos {id: pos_id})
MatchPos(poses, pos_id) == {p \in DOMAIN poses : poses[p].id = pos_id}

\* UNWIND range(0, count - 1) AS id CREATE (:Label {id: id, compromised: false})
CreateNodes_Compromised(nodes, count) ==
    nodes \o [k \in 1..count |-> [id |-> k - 1, compromised |-> TRUE]]
CreateNodes(nodes, count) ==
    nodes \o [k \in 1..count |-> [id |-> k - 1, compromised |-> FALSE]]

\* sequences of length k over S without repetition
RECURSIVE DistinctSeqs(_, _)
DistinctSeqs(S, k) ==
    IF k = 0 THEN {<<>>}
    ELSE UNION {{<<x>> \o s : s \in DistinctSeqs(S \ {x}, k - 1)} : x \in S}

\* sample(range(pos_count), fraud_count)
Sample_WithReplacement(pos_count, fraud_count) ==
    [1..fraud_count -> 0..(pos_count - 1)]
Sample(pos_count, fraud_count) == DistinctSeqs(0..(pos_count - 1), fraud_count)

\* data['pos'] < data['frauds']
InvalidParameter_OffByOne(pos, frauds) == pos <= frauds
InvalidParameter(pos, frauds) == pos < frauds

\* lastStmt: the step's name, the POS id of a resolve-pos request, and whether a
\* generate-data request asked for more frauds than POS devices
NoStmt == [op |-> "none", pos |-> -1, excess |-> FALSE]
Stmt(op) == [op |-> op, pos |-> -1, excess |-> FALSE]

\* no query result: the last step was not a query
NoResult == <<>>

\* a field of the request body that the handler has not read yet
Unread == -1

IdleReq == [pc |-> "idle", cards |-> Unread, pos |-> Unread, transactions |-> Unread,
            frauds |-> Unread, reports |-> Unread, compromised_devices |-> <<>>, i |-> 0]

Init ==
    /\ cardNodes = <<>>
    /\ posNodes = <<>>
    /\ txNodes = <<>>
    /\ Using = {}
    /\ At = {}
    /\ req = [th \in Threads |-> IdleReq]
    /\ response = [th \in Threads |-> 0]
    /\ txHist = <<>>
    /\ run = [state |-> "none", resolves |-> 0, cards |-> Unread, pos |-> Unread,
              transactions |-> Unread, frauds |-> Unread, reports |-> Unread,
              overlap |-> FALSE]
    /\ lastStmt = NoStmt
    /\ result = NoResult

\* the store's content as one value: nodes and edges
Store == [cards |-> cardNodes, pos |-> posNodes, txs |-> txNodes,
          using |-> Using, at |-> At]

\* ---- generate-data --------------------------------------------------------

\* memgraph.drop_database(): the store G with every node and edge deleted
DropDatabase_KeepNodes(G) == [G EXCEPT !.txs = <<>>, !.using = {}, !.at = {}]
DropDatabase_KeepCards(G) == [cards |-> G.cards, pos |-> <<>>, txs |-> <<>>, using |-> {}, at |-> {}]
DropDatabase(G) == [cards |-> <<>>, pos |-> <<>>, txs |-> <<>>, using |-> {}, at |-> {}]

\* another thread is inside its generate-data request while th starts one
InFlight(th) == \E other \in Threads \ {th} : req[other].pc # "idle"

\* generate_data up to and including memgraph.drop_database()
generate_data(th, pos, frauds) ==
    /\ req[th].pc = "idle"
    /\ lastStmt' = [op |-> "generate_data", pos |-> -1, excess |-> frauds > pos]
    /\ result' = NoResult
    /\ IF InvalidParameter(pos, frauds)
       THEN /\ response' = [response EXCEPT ![th] = 418]
            /\ UNCHANGED <<cardNodes, posNodes, txNodes, Using, At, req, txHist, run>>
       ELSE /\ cardNodes' = DropDatabase(Store).cards
            /\ posNodes' = DropDatabase(Store).pos
            /\ txNodes' = DropDatabase(Store).txs
            /\ Using' = DropDatabase(Store).using
            /\ At' = DropDatabase(Store).at
            /\ txHist' = <<>>
            /\ req' = [req EXCEPT ![th] = [IdleReq EXCEPT !.pc = "init_cards",
                                                          !.pos = pos, !.frauds = frauds]]
            /\ run' = [state |-> "running", resolves |-> 0, cards |-> Unread, pos |-> pos,
                       transactions |-> Unread, frauds |-> frauds, reports |-> Unread,
                       overlap |-> InFlight(th)]
            /\ UNCHANGED response

\* init_data(data['cards'], data['pos']), first statement: create the cards
init_cards(th, cards) ==
    /\ req[th].pc = "init_cards"
    /\ cardNodes' = CreateNodes(cardNodes, cards)
    /\ req' = [req EXCEPT ![th].pc = "init_pos", ![th].cards = cards]
    /\ run' = [run EXCEPT !.cards = cards]
    /\ lastStmt' = Stmt("init_cards")
    /\ result' = NoResult
    /\ UNCHANGED <<posNodes, txNodes, Using, At, response, txHist>>

\* init_data, second statement: create the POS devices
init_pos(th) ==
    /\ req[th].pc = "init_pos"
    /\ posNodes' = CreateNodes(posNodes, req[th].pos)
    /\ req' = [req EXCEPT ![th].pc = "compromise_pos_devices"]
    /\ lastStmt' = Stmt("init_pos")
    /\ result' = NoResult
    /\ UNCHANGED <<cardNodes, txNodes, Using, At, response, txHist, run>>

\* compromise_pos_devices: draw the sample
compromise_pos_devices(th) ==
    /\ req[th].pc = "compromise_pos_devices"
    /\ \E s \in Sample(req[th].pos, req[th].frauds) :
          req' = [req EXCEPT ![th].compromised_devices = s,
                             ![th].pc = IF s = <<>> THEN "pump_call"
                                        ELSE "compromise_pos"]
    /\ lastStmt' = Stmt("compromise_pos_devices")
    /\ result' = NoResult
    /\ UNCHANGED <<cardNodes, posNodes, txNodes, Using, At, response, txHist, run>>

\* compromise_pos(pos_id) for the next id of the sample
compromise_pos(th) ==
    /\ req[th].pc = "compromise_pos"
    /\ req[th].compromised_devices # <<>>
    /\ LET pos_id == Head(req[th].compromised_devices)
           rest == Tail(req[th].compromised_devices)
       IN /\ posNodes' = [p \in DOMAIN posNodes |->
                            IF p \in MatchPos(posNodes, pos_id)
                            THEN [posNodes[p] EXCEPT !.compromised = TRUE]
                            ELSE posNodes[p]]
          /\ req' = [req EXCEPT ![th].compromised_devices = rest,
                                ![th].pc = IF rest = <<>> THEN "pump_call"
                                           ELSE "compromise_pos"]
    /\ lastStmt' = Stmt("compromise_pos")
    /\ result' = NoResult
    /\ UNCHANGED <<cardNodes, txNodes, Using, At, response, txHist, run>>

\* ---- pump_transactions -----------------------------------------------------

\* the elements of a finite set of integers in increasing order
RECURSIVE SortedSeq(_)
SortedSeq(S) ==
    IF S = {} THEN <<>>
    ELSE LET m == CHOOSE x \in S : \A y \in S : x <= y
         IN <<m>> \o SortedSeq(S \ {m})

\* the rows of MATCH (c:Card {id: card_id}), (p:Pos {id: pos_id}), cards outermost,
\* each label scanned in creation order
MatchRows(G, card_id, pos_id) ==
    LET cs == SortedSeq(MatchCard(G.cards, card_id))
        ps == SortedSeq(MatchPos(G.pos, pos_id))
    IN [k \in 1..(Len(cs) * Len(ps)) |->
           <<cs[((k - 1) \div Len(ps)) + 1], ps[((k - 1) % Len(ps)) + 1]>>]

\* CREATE (t:Transaction {id: .., fraudReported: c.compromised AND (rand() < %f)})
CreateTransaction(G, c, id, q, r) ==
    [G EXCEPT !.txs = Append(G.txs, [id |-> id,
                         fraudReported |-> G.cards[c].compromised /\ Bernoulli(r, q)])]

\* CREATE (c)<-[:Using]-(t)-[:At]->(p), t the transaction node created last
CreateEdges_NoAt(G, c, p) ==
    [G EXCEPT !.using = G.using \cup {<<Len(G.txs), c>>}]
CreateEdges(G, c, p) ==
    [G EXCEPT !.using = G.using \cup {<<Len(G.txs), c>>},
              !.at = G.at \cup {<<Len(G.txs), p>>}]

\* SET c.compromised = p.compromised
SetCardCompromised_Sticky(G, c, p) ==
    [G EXCEPT !.cards[c].compromised = G.cards[c].compromised \/ G.pos[p].compromised]
SetCardCompromised(G, c, p) ==
    [G EXCEPT !.cards[c].compromised = G.pos[p].compromised]

\* the query of pump_transactions on one matched row (c, p): the clauses in order
PumpRow_SetFirst(G, c, p, id, q, r) ==
    CreateEdges(CreateTransaction(SetCardCompromised(G, c, p), c, id, q, r), c, p)
PumpRow(G, c, p, id, q, r) ==
    SetCardCompromised(CreateEdges(CreateTransaction(G, c, id, q, r), c, p), c, p)

\* the query on all matched rows, one row after the other; rs[k] is row k's rand().
\* H is the history: for every transaction node the row creates, the flags of the
\* row's card and POS as they were before the row was processed
RECURSIVE PumpRows(_, _, _, _, _, _, _)
PumpRows(G, H, rows, k, id, q, rs) ==
    IF k > Len(rows) THEN [g |-> G, h |-> H]
    ELSE LET c == rows[k][1]
             p == rows[k][2]
             G2 == PumpRow(G, c, p, id, q, rs[k])
             H2 == H \o [t \in 1..(Len(G2.txs) - Len(G.txs)) |->
                            [cardBefore |-> G.cards[c].compromised,
                             posCompromised |-> G.pos[p].compromised]]
         IN PumpRows(G2, H2, rows, k + 1, id, q, rs)

\* rint(max) = randint(0, max - 1); raises ValueError when the range is empty
Rint(max) == 0..(max - 1)

\* pump_transactions(data['cards'], data['pos'], data['transactions'], data['reports'])
pump_transactions_call(th, transactions, reports) ==
    /\ req[th].pc = "pump_call"
    /\ req' = [req EXCEPT ![th].pc = "pump_transactions",
                          ![th].transactions = transactions, ![th].reports = reports]
    /\ run' = [run EXCEPT !.transactions = transactions, !.reports = reports]
    /\ lastStmt' = Stmt("pump_transactions_call")
    /\ result' = NoResult
    /\ UNCHANGED <<cardNodes, posNodes, txNodes, Using, At, response, txHist>>

\* one iteration of the loop: memgraph.execute(query.format(rint(..), rint(..), i))
pump_transactions(th) ==
    /\ req[th].pc = "pump_transactions"
    /\ req[th].i < req[th].transactions
    /\ Rint(req[th].cards) # {}
    /\ Rint(req[th].pos) # {}
    /\ \E card_id \in Rint(req[th].cards), pos_id \in Rint(req[th].pos) :
          LET rows == MatchRows(Store, card_id, pos_id)
          IN \E rs \in [DOMAIN rows -> RandDraws] :
                LET R == PumpRows(Store, txHist, rows, 1, req[th].i,
                                  FormatF(req[th].reports), rs)
                IN /\ cardNodes' = R.g.cards
                   /\ posNodes' = R.g.pos
                   /\ txNodes' = R.g.txs
                   /\ Using' = R.g.using
                   /\ At' = R.g.at
                   /\ txHist' = R.h
    /\ req' = [req EXCEPT ![th].i = req[th].i + 1]
    /\ lastStmt' = Stmt("pump_transactions")
    /\ result' = NoResult
    /\ UNCHANGED <<response, run>>

\* one iteration of the loop when rint raises: the request ends with status 500
pump_transactions_raise(th) ==
    /\ req[th].pc = "pump_transactions"
    /\ req[th].i < req[th].transactions
    /\ (Rint(req[th].cards) = {} \/ Rint(req[th].pos) = {})
    /\ req' = [req EXCEPT ![th].pc = "idle"]
    /\ response' = [response EXCEPT ![th] = 500]
    /\ run' = [run EXCEPT !.state = "failed"]
    /\ lastStmt' = Stmt("pump_transactions_raise")
    /\ result' = NoResult
    /\ UNCHANGED <<cardNodes, posNodes, txNodes, Using, At, txHist>>

\* the loop is over: generate_data returns status 201
generate_data_return(th) ==
    /\ req[th].pc = "pump_transactions"
    /\ req[th].i >= req[th].transactions
    /\ req' = [req EXCEPT ![th].pc = "idle"]
    /\ response' = [response EXCEPT ![th] = 201]
    /\ run' = [run EXCEPT !.state = "created"]
    /\ lastStmt' = Stmt("generate_data_return")
    /\ result' = NoResult
    /\ UNCHANGED <<cardNodes, posNodes, txNodes, Using, At, txHist>>

\* ---- resolve-pos ----------------------------------------------------------

\* the rows (p, t, c) of MATCH (p:Pos {id: pos_id}) .. MATCH (p)--(t:Transaction)--(c:Card)
ResolveRows(pos_id) ==
    {<<p, t, c>> \in MatchPos(posNodes, pos_id) \X (DOMAIN txNodes) \X (DOMAIN cardNodes) :
        <<t, p>> \in At /\ <<t, c>> \in Using}

\* SET p.compromised = false
ResolveSetPos_All(pos_id) ==
    [p \in DOMAIN posNodes |-> [posNodes[p] EXCEPT !.compromised = FALSE]]
ResolveSetPos(pos_id) ==
    [p \in DOMAIN posNodes |->
        IF p \in MatchPos(posNodes, pos_id)
        THEN [posNodes[p] EXCEPT !.compromised = FALSE] ELSE posNodes[p]]

\* SET t.fraudReported = false
ResolveSetTx_AllOfCard(pos_id) ==
    [t \in DOMAIN txNodes |->
        IF \E row \in ResolveRows(pos_id) : <<t, row[3]>> \in Using
        THEN [txNodes[t] EXCEPT !.fraudReported = FALSE] ELSE txNodes[t]]
ResolveSetTx(pos_id) ==
    [t \in DOMAIN txNodes |->
        IF \E row \in ResolveRows(pos_id) : row[2] = t
        THEN [txNodes[t] EXCEPT !.fraudReported = FALSE] ELSE txNodes[t]]

\* SET c.compromised = false
ResolveSetCard_Keep(pos_id) == cardNodes
ResolveSetCard_Checked(pos_id) ==
    [c \in DOMAIN cardNodes |->
        IF /\ \E row \in ResolveRows(pos_id) : row[3] = c
           /\ ~\E t \in DOMAIN txNodes, p \in DOMAIN posNodes :
                 /\ <<t, c>> \in Using /\ <<t, p>> \in At
                 /\ p \notin MatchPos(posNodes, pos_id) /\ posNodes[p].compromised
        THEN [cardNodes[c] EXCEPT !.compromised = FALSE] ELSE cardNodes[c]]
ResolveSetCard(pos_id) ==
    [c \in DOMAIN cardNodes |->
        IF \E row \in ResolveRows(pos_id) : row[3] = c
        THEN [cardNodes[c] EXCEPT !.compromised = FALSE] ELSE cardNodes[c]]

\* resolve_pos: one statement, then status 200
resolve_pos(th, pos_id) ==
    /\ req[th].pc = "idle"
    /\ run.resolves < MaxResolves
    /\ posNodes' = ResolveSetPos(pos_id)
    /\ txNodes' = ResolveSetTx(pos_id)
    /\ cardNodes' = ResolveSetCard(pos_id)
    /\ response' = [response EXCEPT ![th] = 200]
    /\ run' = [run EXCEPT !.resolves = run.resolves + 1]
    /\ lastStmt' = [op |-> "resolve_pos", pos |-> pos_id, excess |-> FALSE]
    /\ result' = NoResult
    /\ UNCHANGED <<Using, At, req, txHist>>

\* ---- queries --------------------------------------------------------------

\* the rows of MATCH (t:Transaction {fraudReported: true})-[:Using]->(:Card)
\* <-[:Using]-(:Transaction)-[:At]->(p:Pos): <<t, c, t2, p>>; the two Using edges
\* of one match are different edges
CompromisedPosRows ==
    {row \in (DOMAIN txNodes) \X (DOMAIN cardNodes) \X (DOMAIN txNodes) \X (DOMAIN posNodes) :
        /\ txNodes[row[1]].fraudReported
        /\ <<row[1], row[2]>> \in Using
        /\ <<row[3], row[2]>> \in Using
        /\ <<row[1], row[2]>> # <<row[3], row[2]>>
        /\ <<row[3], row[4]>> \in At}

\* WITH p.id as pos, count(t) as connected_frauds: count(t) of the group of pos
ConnectedFrauds(pos) ==
    Cardinality({row \in CompromisedPosRows : posNodes[row[4]].id = pos})

\* WHERE connected_frauds > 1: the groups that are kept
CompromisedPosGroups ==
    {pos \in {posNodes[row[4]].id : row \in CompromisedPosRows} : ConnectedFrauds(pos) > 1}

\* RETURN pos, connected_frauds ORDER BY connected_frauds DESC; groups of equal
\* count in the order of their ids
RECURSIVE OrderByConnectedFraudsDesc(_)
OrderByConnectedFraudsDesc(groups) ==
    IF groups = {} THEN <<>>
    ELSE LET first == CHOOSE g \in groups : \A h \in groups :
                         \/ ConnectedFrauds(g) > ConnectedFrauds(h)
                         \/ ConnectedFrauds(g) = ConnectedFrauds(h) /\ g <= h
         IN <<[pos |-> first, connected_frauds |-> ConnectedFrauds(first)]>>
               \o OrderByConnectedFraudsDesc(groups \ {first})

GetCompromisedPos == OrderByConnectedFraudsDesc(CompromisedPosGroups)

\* get_compromised_pos: one read statement
get_compromised_pos(th) ==
    /\ req[th].pc = "idle"
    /\ result' = GetCompromisedPos
    /\ response' = [response EXCEPT ![th] = 200]
    /\ lastStmt' = [op |-> "get_compromised_pos", pos |-> -1, excess |-> FALSE]
    /\ UNCHANGED <<cardNodes, posNodes, txNodes, Using, At, req, txHist, run>>

\* MATCH (t:Transaction {fraudReported: true}): the matched nodes, in creation order
FraudulentTx_All == SortedSeq(DOMAIN txNodes)
FraudulentTx == SortedSeq({t \in DOMAIN txNodes : txNodes[t].fraudReported})

\* RETURN t.id as id
GetFraudulentTransactions ==
    [k \in DOMAIN FraudulentTx |-> [id |-> txNodes[FraudulentTx[k]].id]]

\* get_fraudulent_transactions: one read statement
get_fraudulent_transactions_Consuming(th) ==
    /\ req[th].pc = "idle"
    /\ result' = GetFraudulentTransactions
    /\ txNodes' = [t \in DOMAIN txNodes |-> [txNodes[t] EXCEPT !.fraudReported = FALSE]]
    /\ response' = [response EXCEPT ![th] = 200]
    /\ lastStmt' = [op |-> "get_fraudulent_transactions", pos |-> -1, excess |-> FALSE]
    /\ UNCHANGED <<cardNodes, posNodes, Using, At, req, txHist, run>>
get_fraudulent_transactions(th) ==
    /\ req[th].pc = "idle"
    /\ result' = GetFraudulentTransactions
    /\ response' = [response EXCEPT ![th] = 200]
    /\ lastStmt' = [op |-> "get_fraudulent_transactions", pos |-> -1, excess |-> FALSE]
    /\ UNCHANGED <<cardNodes, posNodes, txNodes, Using, At, req, txHist, run>>

\* the matches of MATCH (p1:Pos)<-[:At]-(t1:Transaction {fraudReported: true})-[:Using]
\* ->(c:Card)<-[:Using]-(t2:Transaction)-[:At]->(p2:Pos {id: pos_id}):
\* <<p1, t1, c, t2, p2>>; the edges of one match are pairwise different
HostRows_AnyT2(pos_id) ==
    {row \in (DOMAIN posNodes) \X (DOMAIN txNodes) \X (DOMAIN cardNodes)
                \X (DOMAIN txNodes) \X MatchPos(posNodes, pos_id) :
        /\ txNodes[row[2]].fraudReported
        /\ <<row[2], row[1]>> \in At
        /\ <<row[2], row[3]>> \in Using
        /\ <<row[4], row[3]>> \in Using
        /\ <<row[4], row[5]>> \in At}
HostRows(pos_id) ==
    {row \in (DOMAIN posNodes) \X (DOMAIN txNodes) \X (DOMAIN cardNodes)
                \X (DOMAIN txNodes) \X MatchPos(posNodes, pos_id) :
        /\ txNodes[row[2]].fraudReported
        /\ <<row[2], row[1]>> \in At
        /\ <<row[2], row[3]>> \in Using
        /\ <<row[4], row[3]>> \in Using
        /\ <<row[4], row[5]>> \in At
        /\ <<row[2], row[3]>> # <<row[4], row[3]>>
        /\ <<row[2], row[1]>> # <<row[4], row[5]>>}

\* a before b in the order of the matches: by t1, then t2, then the other nodes
RowBefore(a, b) ==
    \/ a[2] < b[2]
    \/ a[2] = b[2] /\ a[4] < b[4]
    \/ a[2] = b[2] /\ a[4] = b[4] /\ a[1] < b[1]
    \/ a[2] = b[2] /\ a[4] = b[4] /\ a[1] = b[1] /\ a[3] < b[3]
    \/ a[2] = b[2] /\ a[4] = b[4] /\ a[1] = b[1] /\ a[3] = b[3] /\ a[5] <= b[5]

RECURSIVE RowSeq(_)
RowSeq(rows) ==
    IF rows = {} THEN <<>>
    ELSE LET first == CHOOSE a \in rows : \A b \in rows : RowBefore(a, b)
         IN <<first>> \o RowSeq(rows \ {first})

\* output.append({'p1': p1, 't1': t1, 'c': c, 't2': t2, 'p2': p2}), the
\* properties of the nodes of one match
HostRecord(row) ==
    [p1 |-> posNodes[row[1]], t1 |-> txNodes[row[2]], c |-> cardNodes[row[3]],
     t2 |-> txNodes[row[4]], p2 |-> posNodes[row[5]]]

GetPosGraph(pos_id) ==
    [k \in DOMAIN RowSeq(HostRows(pos_id)) |-> HostRecord(RowSeq(HostRows(pos_id))[k])]

\* host: the pos-graph request, one read statement
host(th, pos_id) ==
    /\ req[th].pc = "idle"
    /\ result' = GetPosGraph(pos_id)
    /\ response' = [response EXCEPT ![th] = 200]
    /\ lastStmt' = [op |-> "host", pos |-> pos_id, excess |-> FALSE]
    /\ UNCHANGED <<cardNodes, posNodes, txNodes, Using, At, req, txHist, run>>

\* ---- specification --------------------------------------------------------

Step(th) ==
    \/ \E pos \in PosCounts, frauds \in FraudCounts : generate_data(th, pos, frauds)
    \/ \E cards \in CardCounts : init_cards(th, cards)
    \/ init_pos(th)
    \/ compromise_pos_devices(th)
    \/ compromise_pos(th)
    \/ \E transactions \in TxCounts, reports \in ReportValues :
          pump_transactions_call(th, transactions, reports)
    \/ pump_transactions(th)
    \/ pump_transactions_raise(th)
    \/ generate_data_return(th)
    \/ \E pos_id \in PosIds : resolve_pos(th, pos_id)

Next == \E th \in Sequential : Step(th)

\* the requests that write the store, served one after the other
Spec == Init /\ [][Next]_vars

\* the populations the read requests are checked over: up to two cards, and the
\* report probabilities 0.5, under which every transaction of a compromised card
\* is reported in one run and not reported in another, and 1.0
QueryCards == {0, 1, 2}
QueryReports == {5000000, 10000000}

QueryStep(th) ==
    \/ \E pos \in PosCounts, frauds \in FraudCounts : generate_data(th, pos, frauds)
    \/ \E cards \in QueryCards : init_cards(th, cards)
    \/ init_pos(th)
    \/ compromise_pos_devices(th)
    \/ compromise_pos(th)
    \/ \E transactions \in TxCounts, reports \in QueryReports :
          pump_transactions_call(th, transactions, reports)
    \/ pump_transactions(th)
    \/ pump_transactions_raise(th)
    \/ generate_data_return(th)
    \/ \E pos_id \in PosIds : resolve_pos(th, pos_id)
    \/ get_compromised_pos(th)
    \/ get_fraudulent_transactions(th)
    \/ \E pos_id \in PosIds : host(th, pos_id)

NextQuery == \E th \in Sequential : QueryStep(th)

\* the same requests together with the three read requests
SpecQuery == Init /\ [][NextQuery]_vars

\* the populations of the concurrent generate-data requests
ConcCards == {1}
ConcPos == {1}
ConcFrauds == {0, 1}
ConcTx == {1}
ConcReports == {10000000}

\* a step of one generate-data request
ConcStep(th) ==
    \/ \E pos \in ConcPos, frauds \in ConcFrauds : generate_data(th, pos, frauds)
    \/ \E cards \in ConcCards : init_cards(th, cards)
    \/ init_pos(th)
    \/ compromise_pos_devices(th)
    \/ compromise_pos(th)
    \/ \E transactions \in ConcTx, reports \in ConcReports :
          pump_transactions_call(th, transactions, reports)
    \/ pump_transactions(th)
    \/ generate_data_return(th)

NextConc == \E th \in Threads : ConcStep(th)

\* generate-data requests served by two threads, interleaved statement by statement
SpecConc == Init /\ [][NextConc]_vars

\* ---- properties -----------------------------------------------------------

\* the latest generate-data request has ended, with status 201 or 500
Finished == run.state \in {"created", "failed"}
\* no resolve-pos request has been served since the latest drop
NoRemediation == run.resolves = 0
\* the transaction nodes with an edge to card node c, to POS node p
TxUsing(c) == {t \in DOMAIN txNodes : <<t, c>> \in Using}
TxAt(p) == {t \in DOMAIN txNodes : <<t, p>> \in At}

\* C1: once a card is compromised, no later transaction of the run sets its
\* flag back to false.
C1_CompromiseMonotonic ==
    [][lastStmt'.op = "pump_transactions" =>
          \A c \in DOMAIN cardNodes :
             cardNodes[c].compromised => cardNodes'[c].compromised]_vars

\* C2: without remediation, a card is compromised if and only if one of its
\* transactions linked it to a POS that was compromised at that time.
C2_CompromisedIffLinked ==
    NoRemediation =>
       \A c \in DOMAIN cardNodes :
          cardNodes[c].compromised <=> \E t \in TxUsing(c) : txHist[t].posCompromised

\* C3: a transaction is reported only if its card was compromised before the
\* transaction's own propagation; a card first compromised by the transaction
\* itself never makes that transaction reported.
C3_ReportedOnlyIfAlreadyCompromised ==
    \A t \in DOMAIN txNodes : txNodes[t].fraudReported => txHist[t].cardBefore

C3_Witness ==
    /\ run.reports = 10000000
    /\ \E t \in DOMAIN txNodes :
          ~txHist[t].cardBefore /\ txHist[t].posCompromised /\ ~txNodes[t].fraudReported
    /\ \E t \in DOMAIN txNodes : txNodes[t].fraudReported

\* C4: after resolve-pos on an existing POS p, p is not compromised, no
\* transaction at p is reported and no card of such a transaction is compromised.
C4_ResolveClears ==
    lastStmt.op = "resolve_pos" =>
       \A p \in MatchPos(posNodes, lastStmt.pos) :
          /\ ~posNodes[p].compromised
          /\ \A t \in TxAt(p) :
                /\ ~txNodes[t].fraudReported
                /\ \A c \in DOMAIN cardNodes :
                      <<t, c>> \in Using => ~cardNodes[c].compromised

\* p was compromised when t was made at it, with a card already compromised and
\* report probability 1: the POS, the card and the transaction all had to be cleared
C4_Witness ==
    /\ lastStmt.op = "resolve_pos"
    /\ run.reports = 10000000
    /\ \E p \in MatchPos(posNodes, lastStmt.pos) : \E t \in TxAt(p) :
          txHist[t].posCompromised /\ txHist[t].cardBefore

\* C5 as stated: after resolve-pos on p, every transaction of every card that
\* has a transaction at p is unreported, also those made at other POS devices.
C5_AllTransactionsOfCardsCleared ==
    lastStmt.op = "resolve_pos" =>
       \A p \in MatchPos(posNodes, lastStmt.pos) : \A t \in TxAt(p) :
          \A c \in DOMAIN cardNodes :
             <<t, c>> \in Using => \A t2 \in TxUsing(c) : ~txNodes[t2].fraudReported

\* C5 amended: resolve-pos on p makes every transaction at p unreported, and every
\* other transaction, also one using a card of p at another POS, keeps its flag.
C5_OnlyTransactionsAtPosCleared ==
    [][lastStmt'.op = "resolve_pos" =>
          \A t \in DOMAIN txNodes :
             txNodes'[t].fraudReported =
                (txNodes[t].fraudReported
                   /\ ~\E p \in MatchPos(posNodes, lastStmt'.pos) : <<t, p>> \in At)]_vars

C5_Witness ==
    /\ lastStmt.op = "resolve_pos"
    /\ \E p \in MatchPos(posNodes, lastStmt.pos) : \E t \in TxAt(p) :
          \E c \in DOMAIN cardNodes :
             /\ <<t, c>> \in Using
             /\ \E t2 \in TxUsing(c) : t2 \notin TxAt(p) /\ txNodes[t2].fraudReported

\* C6: a generate-data request with frauds > pos ends with the error status and
\* leaves the store as it was (nothing is dropped); every other request, frauds
\* = pos included, is accepted and drops the store.
C6_InvalidParameterNoMutation ==
    [][lastStmt'.op = "generate_data" =>
          IF lastStmt'.excess
          THEN /\ graph' = graph
               /\ req' = req
               /\ \E th \in Threads : response' = [response EXCEPT ![th] = 418]
          ELSE /\ graph' = <<<<>>, <<>>, <<>>, {}, {}>>
               /\ response' = response
               /\ \E th \in Threads : req[th].pc = "idle" /\ req'[th].pc = "init_cards"]_vars

C6_Witness ==
    /\ lastStmt.op = "generate_data"
    /\ lastStmt.excess
    /\ \E th \in Threads : response[th] = 418 /\ req[th].pc = "idle"
    /\ txNodes # <<>>
    /\ \E p \in DOMAIN posNodes : posNodes[p].compromised

\* every transaction node has exactly one Using edge, to a card node, and exactly
\* one At edge, to a POS node
OneUsingOneAt ==
    \A t \in DOMAIN txNodes :
       /\ Cardinality({e \in Using : e[1] = t}) = 1
       /\ Cardinality({e \in At : e[1] = t}) = 1
       /\ \A e \in Using : e[1] = t => e[2] \in DOMAIN cardNodes
       /\ \A e \in At : e[1] = t => e[2] \in DOMAIN posNodes

\* the transaction nodes carry the ids 0..count-1, each once
DenseTxIds(count) ==
    /\ Len(txNodes) = count
    /\ \A i \in 0..(count - 1) :
          Cardinality({t \in DOMAIN txNodes : txNodes[t].id = i}) = 1

\* C7 as stated: for all counts, generation leaves exactly txCount transactions,
\* ids 0..txCount-1, each with one Using and one At edge.
C7_ExactlyTxCountForAllCounts ==
    Finished => DenseTxIds(run.transactions) /\ OneUsingOneAt

\* C7 amended: with at least one card and one POS (or no transaction asked for)
\* generation leaves exactly txCount transactions, ids 0..txCount-1; asked for
\* transactions with no card or no POS it fails and leaves none; every
\* transaction keeps exactly one Using and one At edge in every state.
C7_ExactlyTxCountWhenCardsAndPosExist ==
    /\ OneUsingOneAt
    /\ run.state = "created" => DenseTxIds(run.transactions)
    /\ run.state = "failed" =>
          txNodes = <<>> /\ run.transactions > 0 /\ (run.cards = 0 \/ run.pos = 0)
    /\ (Finished /\ (run.transactions = 0 \/ (run.cards > 0 /\ run.pos > 0)))
          => run.state = "created"

C7_Witness ==
    /\ run.state = "created"
    /\ run.transactions >= 2
    /\ lastStmt.op = "resolve_pos"
    /\ \E p \in MatchPos(posNodes, lastStmt.pos) : TxAt(p) # {}

\* C8: from the end of the compromise step until remediation, exactly frauds
\* POS devices, with distinct ids, are compromised; transactions change none.
C8_ExactlyFraudCountCompromised ==
    (NoRemediation /\ (Finished \/ \E th \in Threads :
                                       req[th].pc \in {"pump_call", "pump_transactions"})) =>
       /\ Cardinality({p \in DOMAIN posNodes : posNodes[p].compromised}) = run.frauds
       /\ Cardinality({posNodes[p].id : p \in {x \in DOMAIN posNodes : posNodes[x].compromised}})
             = run.frauds

C8_Witness ==
    /\ run.state = "created"
    /\ NoRemediation
    /\ run.frauds >= 1
    /\ run.frauds < run.pos
    /\ Len(txNodes) >= 2
    /\ \E c \in DOMAIN cardNodes : cardNodes[c].compromised
    /\ \E c \in DOMAIN cardNodes : ~cardNodes[c].compromised /\ TxUsing(c) # {}

\* C9: after generate-data with frauds = 0 no card and no POS is compromised
\* and no transaction is reported.
C9_NoFraudsNothingCompromised ==
    (Finished /\ run.frauds = 0) =>
       /\ \A c \in DOMAIN cardNodes : ~cardNodes[c].compromised
       /\ \A p \in DOMAIN posNodes : ~posNodes[p].compromised
       /\ \A t \in DOMAIN txNodes : ~txNodes[t].fraudReported

C9_Witness ==
    /\ run.state = "created"
    /\ run.frauds = 0
    /\ run.reports = 10000000
    /\ run.cards >= 1
    /\ run.pos >= 1
    /\ Len(txNodes) >= 2

\* C10: with report probability 1 a transaction is reported exactly when its
\* card was compromised before it; with probability 0 none is reported (until
\* remediation clears reports).
C10_ReportProbabilityExtremes ==
    NoRemediation =>
       \A t \in DOMAIN txNodes :
          /\ run.reports = 10000000 => (txNodes[t].fraudReported <=> txHist[t].cardBefore)
          /\ run.reports = 0 => ~txNodes[t].fraudReported

C10_Witness ==
    /\ NoRemediation
    /\ run.reports = 10000000
    /\ \E t \in DOMAIN txNodes : txHist[t].cardBefore /\ txNodes[t].fraudReported
    /\ \E t \in DOMAIN txNodes : ~txHist[t].cardBefore /\ ~txNodes[t].fraudReported

\* the latest transaction node of card node c (c has at least one)
LatestTx(c) == CHOOSE t \in TxUsing(c) : \A t2 \in TxUsing(c) : t2 <= t
\* the POS nodes of transaction node t
PosOf(t) == {p \in DOMAIN posNodes : <<t, p>> \in At}
\* the cards, the POS devices carry the ids 0..count-1, each once
DenseIds(nodes, count) ==
    /\ Len(nodes) = count
    /\ \A i \in 0..(count - 1) : Cardinality({n \in DOMAIN nodes : nodes[n].id = i}) = 1

\* C14: resolve-pos on p creates and deletes no node or edge and changes no id;
\* it leaves every other POS, every card with no transaction at p and every
\* transaction not at p as they were.
C14_ResolveFrame ==
    [][lastStmt'.op = "resolve_pos" =>
          LET P == MatchPos(posNodes, lastStmt'.pos)
          IN /\ Using' = Using
             /\ At' = At
             /\ DOMAIN cardNodes' = DOMAIN cardNodes
             /\ DOMAIN posNodes' = DOMAIN posNodes
             /\ DOMAIN txNodes' = DOMAIN txNodes
             /\ \A p \in DOMAIN posNodes :
                   /\ posNodes'[p].id = posNodes[p].id
                   /\ p \notin P => posNodes'[p] = posNodes[p]
             /\ \A c \in DOMAIN cardNodes :
                   /\ cardNodes'[c].id = cardNodes[c].id
                   /\ (\A t \in TxUsing(c) : PosOf(t) \cap P = {}) => cardNodes'[c] = cardNodes[c]
             /\ \A t \in DOMAIN txNodes :
                   /\ txNodes'[t].id = txNodes[t].id
                   /\ PosOf(t) \cap P = {} => txNodes'[t] = txNodes[t]]_vars

\* after resolve-pos on p: another POS is still compromised, a card without a
\* transaction at p is still compromised, a transaction elsewhere is still reported
C14_Witness ==
    /\ lastStmt.op = "resolve_pos"
    /\ LET P == MatchPos(posNodes, lastStmt.pos)
       IN /\ \E p \in P : TxAt(p) # {}
          /\ \E p \in DOMAIN posNodes : p \notin P /\ posNodes[p].compromised
          /\ \E c \in DOMAIN cardNodes :
                /\ cardNodes[c].compromised
                /\ TxUsing(c) # {}
                /\ \A t \in TxUsing(c) : PosOf(t) \cap P = {}
          /\ \E t \in DOMAIN txNodes : PosOf(t) \cap P = {} /\ txNodes[t].fraudReported

\* C16: generate-data drops, initializes, compromises and generates in that
\* order, so a created run leaves exactly its own population: cards 0..cards-1,
\* POS 0..pos-1, transactions 0..transactions-1, and nothing of earlier runs.
C16_DropAllAndRecreate ==
    /\ \A th \in Sequential :
          /\ req[th].pc = "init_cards" => graph = <<<<>>, <<>>, <<>>, {}, {}>>
          /\ req[th].pc = "init_pos" =>
                DenseIds(cardNodes, run.cards) /\ posNodes = <<>> /\ txNodes = <<>>
          /\ req[th].pc \in {"compromise_pos_devices", "compromise_pos", "pump_call"} =>
                DenseIds(cardNodes, run.cards) /\ DenseIds(posNodes, run.pos) /\ txNodes = <<>>
          /\ req[th].pc = "pump_transactions" =>
                /\ DenseIds(cardNodes, run.cards)
                /\ DenseIds(posNodes, run.pos)
                /\ DenseTxIds(req[th].i)
    /\ run.state = "created" =>
          /\ DenseIds(cardNodes, run.cards)
          /\ DenseIds(posNodes, run.pos)
          /\ DenseTxIds(run.transactions)
          /\ Cardinality(Using) = run.transactions
          /\ Cardinality(At) = run.transactions

\* the population of a run is complete, on a thread that served a resolve-pos
\* request before this run
C16_Witness ==
    \E th \in Sequential :
       /\ req[th].pc = "pump_transactions"
       /\ response[th] = 200
       /\ req[th].i = run.transactions
       /\ run.transactions >= 1
       /\ run.cards = 1
       /\ run.pos = 1

\* C17: resolve-pos on p clears every card that has a transaction at p, also a
\* card that another, still compromised POS compromised.
C17_BlanketReset ==
    [][lastStmt'.op = "resolve_pos" =>
          LET P == MatchPos(posNodes, lastStmt'.pos)
          IN \A c \in DOMAIN cardNodes :
                ((\E t \in TxUsing(c) : PosOf(t) \cap P # {})
                   /\ (\E t \in TxUsing(c) : \E p \in PosOf(t) :
                          p \notin P /\ txHist[t].posCompromised /\ posNodes'[p].compromised))
                => ~cardNodes'[c].compromised]_vars

\* after resolve-pos on p, a card with a transaction at p is clean although its
\* latest transaction was made at another POS, compromised then and still now
C17_Witness ==
    /\ lastStmt.op = "resolve_pos"
    /\ LET P == MatchPos(posNodes, lastStmt.pos)
       IN \E c \in DOMAIN cardNodes :
             /\ ~cardNodes[c].compromised
             /\ \E t \in TxUsing(c) : PosOf(t) \cap P # {}
             /\ \E p \in PosOf(LatestTx(c)) :
                   p \notin P /\ txHist[LatestTx(c)].posCompromised /\ posNodes[p].compromised

\* C19: without remediation, a card with a transaction has the compromised flag
\* of the POS of its latest transaction, and a card without one is clean.
C19_CardFollowsLatestPos ==
    NoRemediation =>
       \A c \in DOMAIN cardNodes :
          IF TxUsing(c) = {} THEN ~cardNodes[c].compromised
          ELSE /\ cardNodes[c].compromised = txHist[LatestTx(c)].posCompromised
               /\ \A p \in PosOf(LatestTx(c)) : cardNodes[c].compromised = posNodes[p].compromised

\* a card made at a compromised POS and later at a clean one is clean again
C19_Witness ==
    /\ NoRemediation
    /\ \E c \in DOMAIN cardNodes :
          /\ ~cardNodes[c].compromised
          /\ \E t \in TxUsing(c) : txHist[t].posCompromised
    /\ \E c \in DOMAIN cardNodes : TxUsing(c) = {}

\* the connected fraud count of the POS devices with id pos: the reported
\* transactions that share a card with another transaction made at such a POS
DistinctConnectedFrauds(pos) ==
    Cardinality({t1 \in DOMAIN txNodes :
        /\ txNodes[t1].fraudReported
        /\ \E t2 \in DOMAIN txNodes \ {t1}, c \in DOMAIN cardNodes, p \in DOMAIN posNodes :
              /\ <<t1, c>> \in Using
              /\ <<t2, c>> \in Using
              /\ <<t2, p>> \in At
              /\ posNodes[p].id = pos})

\* C11: the count get_compromised_pos returns for a POS is the number of distinct
\* reported transactions that share a card with another transaction at that POS;
\* a reported transaction counts once however many transactions at the POS used
\* its card.
C11_CountIsDistinctConnectedFrauds ==
    lastStmt.op = "get_compromised_pos" =>
        \A k \in DOMAIN result :
            result[k].connected_frauds = DistinctConnectedFrauds(result[k].pos)

\* C12: get_compromised_pos never returns a POS whose connected fraud count is at
\* most 1, returns each POS id at most once, returns the counts in non-increasing
\* order, and returns the empty sequence when no transaction is reported.
C12_OnlyMoreThanOneFraudSortedUnique ==
    lastStmt.op = "get_compromised_pos" =>
        /\ \A k \in DOMAIN result : DistinctConnectedFrauds(result[k].pos) > 1
        /\ \A j, k \in DOMAIN result : result[j].pos = result[k].pos => j = k
        /\ \A j, k \in DOMAIN result :
              j <= k => result[j].connected_frauds >= result[k].connected_frauds
        /\ (\A t \in DOMAIN txNodes : ~txNodes[t].fraudReported) => result = <<>>

\* the transactions whose fraudReported is true in the current store
ReportedTx == {t \in DOMAIN txNodes : txNodes[t].fraudReported}

\* C13: get_fraudulent_transactions returns exactly the ids of the transactions
\* whose fraudReported is true at the time of the request, one entry for each of
\* them: none missing, none extra, none for a transaction that a resolve-pos
\* request has cleared.
C13_ExactlyReportedIds ==
    lastStmt.op = "get_fraudulent_transactions" =>
        /\ {result[k].id : k \in DOMAIN result} = {txNodes[t].id : t \in ReportedTx}
        /\ Len(result) = Cardinality(ReportedTx)

\* a request served after a resolve-pos request: every transaction of a
\* compromised card was reported when it was made (probability 1.0), one of them
\* is no longer reported and another still is, and the request returns an id
C13_Witness ==
    /\ lastStmt.op = "get_fraudulent_transactions"
    /\ run.state = "created"
    /\ run.reports = 10000000
    /\ run.resolves >= 1
    /\ result # <<>>
    /\ \E t \in DOMAIN txNodes : txHist[t].cardBefore /\ ~txNodes[t].fraudReported
    /\ \E t \in DOMAIN txNodes : txHist[t].cardBefore /\ txNodes[t].fraudReported

\* the statements of the three read requests
QueryOps == {"get_compromised_pos", "get_fraudulent_transactions", "host"}

\* C15: no read request changes a node, an edge or a flag of the store, and a
\* get_fraudulent_transactions or get_compromised_pos request that directly
\* follows the same request returns the same result.
C15_QueriesReadOnlyIdempotent ==
    [][lastStmt'.op \in QueryOps =>
          /\ graph' = graph
          /\ (lastStmt.op = lastStmt'.op /\ lastStmt'.op # "host") => result' = result]_vars

\* a get_fraudulent_transactions request has returned ids and the transactions
\* it read are still reported
C15_Witness ==
    /\ lastStmt.op = "get_fraudulent_transactions"
    /\ result # <<>>
    /\ Len(result) = Cardinality(ReportedTx)
    /\ Cardinality(ReportedTx) >= 2

\* the chains p1 <- t1 -> c <- t2 -> p2 of the current store that end at a POS
\* with id p2id, as <<At edge of t1, Using edge of t1, Using edge of t2, At edge
\* of t2>>: t1 is reported, t1 and t2 are different transactions of one card
Chains(p2id) ==
    {ch \in At \X Using \X Using \X At :
        /\ ch[1][1] = ch[2][1]
        /\ ch[2][2] = ch[3][2]
        /\ ch[3][1] = ch[4][1]
        /\ ch[2][1] # ch[3][1]
        /\ txNodes[ch[2][1]].fraudReported
        /\ posNodes[ch[4][2]].id = p2id}

\* the attribute sets of the five nodes of a chain
ChainRecord(ch) ==
    [p1 |-> posNodes[ch[1][2]], t1 |-> txNodes[ch[2][1]], c |-> cardNodes[ch[2][2]],
     t2 |-> txNodes[ch[3][1]], p2 |-> posNodes[ch[4][2]]]

\* C18: the pos-graph request for the POS id p2id returns one record for each
\* chain p1 <- t1 -> c <- t2 -> p2 in which t1 is reported, t1 and t2 are distinct
\* transactions of the same card and t2 is at the POS with id p2id, each record
\* with the attributes of the five nodes, and nothing when there is no chain.
C18_OneRecordPerChain ==
    lastStmt.op = "host" =>
        /\ Len(result) = Cardinality(Chains(lastStmt.pos))
        /\ {result[k] : k \in DOMAIN result} = {ChainRecord(ch) : ch \in Chains(lastStmt.pos)}
        /\ Chains(lastStmt.pos) = {} => result = <<>>

\* a request that returned a chain with p1 = p2 and a chain with p1 # p2
C18_Witness ==
    /\ lastStmt.op = "host"
    /\ Len(result) >= 2
    /\ \E j, k \in DOMAIN result :
          /\ result[j].p1.id = result[j].p2.id
          /\ result[k].p1.id # result[k].p2.id
          /\ result[j].t1.fraudReported /\ result[k].t1.fraudReported

\* no two nodes of the sequence carry the same id
UniqueIds(nodes) ==
    \A j, k \in DOMAIN nodes : nodes[j].id = nodes[k].id => j = k

\* C20: nothing keeps two generate-data requests from interleaving. While the
\* latest request that dropped the store did so with no other request in flight,
\* the nodes of each label carry distinct ids and every transaction has one
\* Using and one At edge; once two requests interleave, two nodes of one label
\* with the same id are reachable.
C20_UniqueIdsUnlessInterleaved ==
    ~run.overlap =>
        /\ UniqueIds(cardNodes)
        /\ UniqueIds(posNodes)
        /\ UniqueIds(txNodes)
        /\ OneUsingOneAt

\* both requests have returned 201 after interleaving, and the store holds two
\* cards with one id, two POS devices with one id and two transactions with one id
C20_Witness ==
    /\ run.overlap
    /\ \A th \in Threads : req[th].pc = "idle" /\ response[th] = 201
    /\ ~UniqueIds(cardNodes)
    /\ ~UniqueIds(posNodes)
    /\ ~UniqueIds(txNodes)

====
